---- MODULE Spec2Model ----
(***************************************************************************)
(* Model of the clinical-study visit workflow (core/models.py,             *)
(* core/views.py, core/urls.py).  The state is the relational store: the   *)
(* Participant and Visit tables and the four one-to-one step tables, plus  *)
(* the response of the last request handled.  One action per view.         *)
(***************************************************************************)
EXTENDS Integers, Sequences, FiniteSets, Bags, TLC

VARIABLES
    participants,                \* Participant rows [id, participant_id]
    visits,                      \* Visit rows [id, participant, completed]
    vitals,                      \* Vitals rows (a bag: the table is unordered)
    doctor_questionnaire,        \* DoctorQuestionnaire rows
    psychiatrist_questionnaire,  \* PsychiatristQuestionnaire rows
    lab_request,                 \* LabRequest rows
    nextParticipantId,           \* AutoField sequence of Participant
    nextVisitId,                 \* AutoField sequence of Visit
    response,                    \* the last request and the response it got
    inflight                     \* the requests that workers are handling

db == <<participants, visits, vitals, doctor_questionnaire,
        psychiatrist_questionnaire, lab_request, nextParticipantId, nextVisitId>>
steps == <<vitals, doctor_questionnaire, psychiatrist_questionnaire, lab_request>>
vars == <<participants, visits, vitals, doctor_questionnaire,
          psychiatrist_questionnaire, lab_request, nextParticipantId,
          nextVisitId, response, inflight>>

----------------------------------------------------------------------------
(* Bounds *)

MaxParticipants == 1
MaxVisits == 1
ListedVisits == 3
Enrolled == 2

ParticipantPks == 1..MaxParticipants
VisitPks == 1..MaxVisits
ListedPks == 1..ListedVisits
EnrolledPks == 1..Enrolled
EnrolledVisitPks == 1..(Enrolled + 1)

----------------------------------------------------------------------------
(* Request inputs *)

\* request.POST.get(key) of a key the form did not send
None == "None"

Methods == {"GET", "POST"}

\* take_vitals reads the six fields as raw strings; heart_rate, temperature,
\* height and weight are carried together in `others`.
VitalsPosts ==
    [blood_pressure_systolic : {None, "abc", "120"},
     blood_pressure_diastolic : {"80"},
     others : {"72"}]

\* the four text fields of DoctorAssessmentForm; medical_history,
\* current_medications and physical_exam_findings are carried in `others`
DoctorPosts ==
    [chief_complaint : {"", "Headache"},
     others : {"Normal"}]

\* mental_status_exam, and risk_factors with recommendations in `others`
PsychiatristPosts ==
    [mental_status_exam : {None, "Stable"},
     others : {"Counseling"}]

\* urgency is stored as sent: create() does not enforce the choices
LabPosts ==
    [urgency : {None, "Normal"},
     notes : {"Routine"}]

VisitPosts == {"BASELINE", "INVALID"}

EnrollPosts ==
    [participant_id : {None, "PX001", "PX002"},
     others : {"Jane"}]

\* a request whose body the view never reads (a GET, or a request that
\* @login_required turns away) carries one body, the first of the set
Bodies(auth, method, posts) ==
    IF auth /\ method = "POST" THEN posts ELSE {CHOOSE p \in posts : TRUE}

\* @login_required turns an anonymous request away before the id in its URL
\* is looked up, so such a request carries one id, the first of the set
Ids(auth, pks) == IF auth THEN pks ELSE {CHOOSE pk \in pks : TRUE}

----------------------------------------------------------------------------
(* URL configuration *)

app_name == "core"

urlpatterns ==
    {"dashboard", "enroll_participant", "participant_list",
     "participant_detail", "delete_participant", "vitals",
     "doctor_assessment", "psychiatrist_assessment", "lab_request",
     "complete_visit", "active_visits", "completed_visits", "create_visit",
     "study_progress_report", "participant_data_export",
     "visit_summary_report", "participant_search", "visit_status"}

\* django.urls.reverse: the patterns are registered under the application
\* namespace only, so a name resolves iff it is written "core:<name>".
Reverse(viewname) ==
    \E n \in urlpatterns : viewname = app_name \o ":" \o n

LOGIN_URL == "login"

----------------------------------------------------------------------------
(* Responses *)

\* a response without a JSON body or a modelled template context
NoData == [none |-> TRUE]

\* The last request (view, method, authenticated, id in the URL) and what
\* the view answered: the outcome, the URL name or template it names, the id
\* passed to the redirect, the levels of the messages it queued, the str(e)
\* that an error message quotes, and the JSON body or template context.
Response(view, method, auth, id, outcome, to, arg, msgs) ==
    [view |-> view, method |-> method, auth |-> auth, id |-> id,
     outcome |-> outcome, to |-> to, arg |-> arg, messages |-> msgs,
     exception |-> "", data |-> NoData]

NoResponse == Response("", "", FALSE, 0, "", "", 0, {})

\* an anonymous request served a page
LoginRedirect_served(view, method, id) ==
    Response(view, method, FALSE, id, "render", "", 0, {})

\* @login_required on an anonymous request
LoginRedirect(view, method, id) ==
    Response(view, method, FALSE, id, "redirect", LOGIN_URL, 0, {})

\* a missing object answered with an empty page
NotFound_blank(view, method, id) ==
    Response(view, method, TRUE, id, "render", "", 0, {})

\* get_object_or_404 raising Http404
NotFound(view, method, id) ==
    Response(view, method, TRUE, id, "not_found", "", 0, {})

\* render(request, template, context)
Render(view, method, id, template, msgs) ==
    Response(view, method, TRUE, id, "render", template, 0, msgs)

\* messages.error(request, f'...: {str(e)}') in an `except Exception as e`
\* branch, which then falls through to render the template
RenderExcept(view, method, id, template, msgs, e) ==
    [Render(view, method, id, template, msgs) EXCEPT !.exception = e]

\* render(request, template, context) of a context the properties read
RenderContext(view, method, id, template, context) ==
    [Render(view, method, id, template, {}) EXCEPT !.data = context]

\* JsonResponse(data)
JsonResponse(view, method, id, data) ==
    [Response(view, method, TRUE, id, "json", "", 0, {}) EXCEPT !.data = data]

\* an exception that leaves the view
ServerError(view, method, id, msgs) ==
    Response(view, method, TRUE, id, "server_error", "", 0, msgs)

\* HttpResponseRedirect to the URL that reverse(to, arg) gave
Redirect(view, method, id, to, arg, msgs) ==
    Response(view, method, TRUE, id, "redirect", to, arg, msgs)

----------------------------------------------------------------------------
(* Workers *)

\* the server processes that handle requests side by side
Workers == {"w1", "w2"}

\* a worker with no request
Idle ==
    [pc |-> "idle", view |-> "", id |-> 0, post |-> NoData, stored |-> FALSE,
     response |-> NoResponse]

----------------------------------------------------------------------------
(* Store *)

VisitExists(visit_id) == \E v \in visits : v.id = visit_id

ParticipantExists(pk) == \E p \in participants : p.id = pk

\* the rows of a table that point at the visit
RowsOf(table, visit_id) == {r \in BagToSet(table) : r.visit = visit_id}

\* hasattr(visit, <related name>): a row of the table points at the visit
HasAttr(table, visit_id) == RowsOf(table, visit_id) # {}

\* Table.objects.filter(visit=visit).count()
Count(table, visit_id) ==
    BagCardinality([r \in RowsOf(table, visit_id) |-> table[r]])

\* an INSERT that is never committed
Insert_lost(table, row) == table

\* INSERT of one row
Insert(table, row) == table (+) SetToBag({row})

\* IntegerField.get_prep_value: int(value)
IsInt(s) == s \in {"80", "120"}
int(s) == IF s = "80" THEN 80 ELSE 120

\* str(e) of the exceptions that reach an `except Exception as e` branch
ValueError == "expected a number"
NotNullFailed == "NOT NULL constraint failed"
UniqueFailed == "UNIQUE constraint failed"
NoReverseMatch == "Reverse not found"

\* the UNIQUE constraint left out of the column
UniqueVisit_unconstrained(table, visit_id) == TRUE

\* OneToOneField(Visit): UNIQUE constraint on visit_id
UniqueVisit(table, visit_id) == ~HasAttr(table, visit_id)

----------------------------------------------------------------------------
(* Model layer: what each objects.create / save does to its table *)

\* Vitals.objects.create(...) storing whatever text it is given
VitalsCreateOk_unconverted(visit_id, post) ==
    /\ post.blood_pressure_systolic # None
    /\ post.blood_pressure_diastolic # None
    /\ post.others # None
    /\ UniqueVisit(vitals, visit_id)

\* Vitals.objects.create(...) returns instead of raising: every column is
\* NOT NULL, the integer columns must convert, visit_id is UNIQUE.
VitalsCreateOk(visit_id, post) ==
    /\ post.blood_pressure_systolic # None
    /\ post.blood_pressure_diastolic # None
    /\ post.others # None
    /\ IsInt(post.blood_pressure_systolic)
    /\ IsInt(post.blood_pressure_diastolic)
    /\ UniqueVisit(vitals, visit_id)

\* the exception of a Vitals.objects.create that raises: the values are
\* converted before the INSERT is sent, and the row is checked for NULLs
\* before the unique index is
VitalsCreateError(visit_id, post) ==
    IF \E f \in {post.blood_pressure_systolic, post.blood_pressure_diastolic} :
          f # None /\ ~IsInt(f)
    THEN ValueError
    ELSE IF None \in {post.blood_pressure_systolic,
                      post.blood_pressure_diastolic, post.others}
    THEN NotNullFailed
    ELSE UniqueFailed

VitalsRow(visit_id, post) ==
    [visit |-> visit_id,
     blood_pressure_systolic |-> int(post.blood_pressure_systolic),
     blood_pressure_diastolic |-> int(post.blood_pressure_diastolic)]

\* DoctorAssessmentForm.is_valid(): the four text fields are required
DoctorFormValid(post) ==
    /\ post.chief_complaint # ""
    /\ post.others # ""

DoctorRow(visit_id, post) ==
    [visit |-> visit_id, chief_complaint |-> post.chief_complaint]

\* PsychiatristQuestionnaire.objects.create(...) returns instead of raising
PsychiatristCreateOk(visit_id, post) ==
    /\ post.mental_status_exam # None
    /\ post.others # None
    /\ UniqueVisit(psychiatrist_questionnaire, visit_id)

PsychiatristCreateError(visit_id, post) ==
    IF None \in {post.mental_status_exam, post.others} THEN NotNullFailed
    ELSE UniqueFailed

PsychiatristRow(visit_id, post) ==
    [visit |-> visit_id, mental_status_exam |-> post.mental_status_exam]

\* LabRequest.objects.create(...) returns instead of raising; getlist always
\* yields a list, and choices are not enforced by create
LabCreateOk(visit_id, post) ==
    /\ post.urgency # None
    /\ post.notes # None
    /\ UniqueVisit(lab_request, visit_id)

LabCreateError(visit_id, post) ==
    IF None \in {post.urgency, post.notes} THEN NotNullFailed
    ELSE UniqueFailed

LabRow(visit_id, post) ==
    [visit |-> visit_id, urgency |-> post.urgency]

\* VisitForm.is_valid(): visit_type is one of Visit.VISIT_TYPES
VISIT_TYPES == {"BASELINE", "FOLLOWUP_1", "FOLLOWUP_2"}
VisitFormValid(post) == post \in VISIT_TYPES

\* Participant.objects.create(...) returns instead of raising
ParticipantCreateOk(post) ==
    /\ post.participant_id # None
    /\ post.others # None
    /\ \A p \in participants : p.participant_id # post.participant_id

ParticipantCreateError(post) ==
    IF None \in {post.participant_id, post.others} THEN NotNullFailed
    ELSE UniqueFailed

\* a step table whose foreign key does not cascade
CascadeRows_kept(table, gone) == table

\* on_delete=CASCADE from Visit to a step table
CascadeRows(table, gone) ==
    [r \in {x \in BagToSet(table) : x.visit \notin gone} |-> table[r]]

----------------------------------------------------------------------------
(* Workflow gates of the views *)

\* the doctor step left open to every visit
DoctorDenied_open(visit_id) == FALSE

\* the doctor step also closed to a visit that has its doctor record
DoctorDenied_reentry(visit_id) ==
    ~HasAttr(vitals, visit_id) \/ HasAttr(doctor_questionnaire, visit_id)

\* doctor_assessment: not hasattr(visit, "vitals")
DoctorDenied(visit_id) == ~HasAttr(vitals, visit_id)

\* the psychiatrist step left open to every visit
PsychiatristDenied_open(visit_id) == FALSE

\* the psychiatrist step guarded by the vitals instead of the doctor record
PsychiatristDenied_vitals(visit_id) == ~HasAttr(vitals, visit_id)

\* psychiatrist_assessment: not hasattr(visit, 'doctor_questionnaire')
PsychiatristDenied(visit_id) == ~HasAttr(doctor_questionnaire, visit_id)

\* the lab step left open to every visit
LabDenied_open(visit_id) == FALSE

\* create_lab_request: not hasattr(visit, 'psychiatrist_questionnaire')
LabDenied(visit_id) == ~HasAttr(psychiatrist_questionnaire, visit_id)

\* complete_visit guarded like the steps before it
CompleteDenied_lab(visit_id) == ~HasAttr(lab_request, visit_id)

\* complete_visit has no presence check before it writes
CompleteDenied(visit_id) == FALSE

\* redirect(to, arg) called outside a try block: the response, or the
\* NoReverseMatch that leaves the view
RedirectOr500(view, method, id, to, arg, msgs) ==
    IF Reverse(to) THEN Redirect(view, method, id, to, arg, msgs)
    ELSE ServerError(view, method, id, msgs)

\* messages.success(...); return redirect(to, arg) inside
\* `try: ... except Exception`: the response, or the error branch, which adds
\* an error message and falls through to render the template
RedirectOrExcept(view, method, id, to, arg, template) ==
    IF Reverse(to) THEN Redirect(view, method, id, to, arg, {"success"})
    ELSE RenderExcept(view, method, id, template, {"success", "error"},
                      NoReverseMatch)

----------------------------------------------------------------------------
(* Utility functions *)

\* the progress of a visit with the completed flag counted as a fifth step
calculate_visit_progress_flagged(visit_id) ==
    (IF HasAttr(vitals, visit_id) THEN 1 ELSE 0)
    + (IF HasAttr(doctor_questionnaire, visit_id) THEN 1 ELSE 0)
    + (IF HasAttr(psychiatrist_questionnaire, visit_id) THEN 1 ELSE 0)
    + (IF HasAttr(lab_request, visit_id) THEN 1 ELSE 0)
    + (IF \E v \in visits : v.id = visit_id /\ v.completed THEN 1 ELSE 0)

\* the progress of a visit counted modulo the number of steps
calculate_visit_progress_wrapping(visit_id) ==
    ((IF HasAttr(vitals, visit_id) THEN 1 ELSE 0)
     + (IF HasAttr(doctor_questionnaire, visit_id) THEN 1 ELSE 0)
     + (IF HasAttr(psychiatrist_questionnaire, visit_id) THEN 1 ELSE 0)
     + (IF HasAttr(lab_request, visit_id) THEN 1 ELSE 0)) % 4

\* calculate_visit_progress(visit): one for each related record present
calculate_visit_progress(visit_id) ==
    (IF HasAttr(vitals, visit_id) THEN 1 ELSE 0)
    + (IF HasAttr(doctor_questionnaire, visit_id) THEN 1 ELSE 0)
    + (IF HasAttr(psychiatrist_questionnaire, visit_id) THEN 1 ELSE 0)
    + (IF HasAttr(lab_request, visit_id) THEN 1 ELSE 0)

----------------------------------------------------------------------------
(* Views *)

Init ==
    /\ participants = {}
    /\ visits = {}
    /\ vitals = EmptyBag
    /\ doctor_questionnaire = EmptyBag
    /\ psychiatrist_questionnaire = EmptyBag
    /\ lab_request = EmptyBag
    /\ nextParticipantId = 1
    /\ nextVisitId = 1
    /\ response = NoResponse
    /\ inflight = [w \in Workers |-> Idle]

enroll_participant(auth, method, post) ==
    LET view == "enroll_participant" IN
    IF ~auth THEN
        /\ response' = LoginRedirect(view, method, 0)
        /\ UNCHANGED db
    ELSE IF method = "POST" /\ ParticipantCreateOk(post) THEN
        /\ nextParticipantId <= MaxParticipants
        /\ participants' = participants \cup
              {[id |-> nextParticipantId, participant_id |-> post.participant_id]}
        /\ nextParticipantId' = nextParticipantId + 1
        /\ response' = RedirectOrExcept(view, method, 0, "dashboard", 0,
                                        "core/enrollment.html")
        /\ UNCHANGED <<visits, steps, nextVisitId>>
    ELSE
        /\ response' =
              IF method = "POST"
              THEN RenderExcept(view, method, 0, "core/enrollment.html",
                                {"error"}, ParticipantCreateError(post))
              ELSE Render(view, method, 0, "core/enrollment.html", {})
        /\ UNCHANGED db

delete_participant(auth, method, participant_id) ==
    LET view == "delete_participant"
        gone == {v.id : v \in {w \in visits : w.participant = participant_id}}
    IN
    IF ~auth THEN
        /\ response' = LoginRedirect(view, method, participant_id)
        /\ UNCHANGED db
    ELSE IF ~ParticipantExists(participant_id) THEN
        /\ response' = NotFound(view, method, participant_id)
        /\ UNCHANGED db
    ELSE IF method = "POST" THEN
        /\ participants' = {p \in participants : p.id # participant_id}
        /\ visits' = {v \in visits : v.participant # participant_id}
        /\ vitals' = CascadeRows(vitals, gone)
        /\ doctor_questionnaire' = CascadeRows(doctor_questionnaire, gone)
        /\ psychiatrist_questionnaire' =
              CascadeRows(psychiatrist_questionnaire, gone)
        /\ lab_request' = CascadeRows(lab_request, gone)
        /\ response' = RedirectOr500(view, method, participant_id,
                                     "core:participant_list", 0, {"success"})
        /\ UNCHANGED <<nextParticipantId, nextVisitId>>
    ELSE
        /\ response' = RedirectOr500(view, method, participant_id,
                                     "core:participant_detail", participant_id, {})
        /\ UNCHANGED db

create_visit(auth, method, participant_id, post) ==
    LET view == "create_visit" IN
    IF ~auth THEN
        /\ response' = LoginRedirect(view, method, participant_id)
        /\ UNCHANGED db
    ELSE IF ~ParticipantExists(participant_id) THEN
        /\ response' = NotFound(view, method, participant_id)
        /\ UNCHANGED db
    ELSE IF method = "POST" /\ VisitFormValid(post) THEN
        /\ nextVisitId <= MaxVisits
        /\ visits' = visits \cup
              {[id |-> nextVisitId, participant |-> participant_id,
                completed |-> FALSE]}
        /\ nextVisitId' = nextVisitId + 1
        /\ response' = RedirectOr500(view, method, participant_id,
                                     "core:vitals", nextVisitId, {"success"})
        /\ UNCHANGED <<participants, steps, nextParticipantId>>
    ELSE
        /\ response' = Render(view, method, participant_id,
                              "core/create_visit.html", {})
        /\ UNCHANGED db

take_vitals(auth, method, visit_id, post) ==
    LET view == "take_vitals" IN
    IF ~auth THEN
        /\ response' = LoginRedirect(view, method, visit_id)
        /\ UNCHANGED db
    ELSE IF ~VisitExists(visit_id) THEN
        /\ response' = NotFound(view, method, visit_id)
        /\ UNCHANGED db
    ELSE IF method = "POST" /\ VitalsCreateOk(visit_id, post) THEN
        /\ vitals' = Insert(vitals, VitalsRow(visit_id, post))
        /\ response' = RedirectOrExcept(view, method, visit_id,
                                        "core:doctor_assessment", visit_id,
                                        "core/vitals.html")
        /\ UNCHANGED <<participants, visits, doctor_questionnaire,
                       psychiatrist_questionnaire, lab_request,
                       nextParticipantId, nextVisitId>>
    ELSE
        /\ response' =
              IF method = "POST"
              THEN RenderExcept(view, method, visit_id, "core/vitals.html",
                                {"error"}, VitalsCreateError(visit_id, post))
              ELSE Render(view, method, visit_id, "core/vitals.html", {})
        /\ UNCHANGED db

doctor_assessment(auth, method, visit_id, post) ==
    LET view == "doctor_assessment" IN
    IF ~auth THEN
        /\ response' = LoginRedirect(view, method, visit_id)
        /\ UNCHANGED db
    ELSE IF ~VisitExists(visit_id) THEN
        /\ response' = NotFound(view, method, visit_id)
        /\ UNCHANGED db
    ELSE IF DoctorDenied(visit_id) THEN
        /\ response' = RedirectOr500(view, method, visit_id, "core:vitals",
                                     visit_id, {"warning"})
        /\ UNCHANGED db
    ELSE IF method = "POST" /\ DoctorFormValid(post) THEN
        IF UniqueVisit(doctor_questionnaire, visit_id) THEN
            /\ doctor_questionnaire' =
                  Insert(doctor_questionnaire, DoctorRow(visit_id, post))
            /\ response' = RedirectOr500(view, method, visit_id,
                                         "core:psychiatrist_assessment", visit_id,
                                         {"success"})
            /\ UNCHANGED <<participants, visits, vitals,
                           psychiatrist_questionnaire, lab_request,
                           nextParticipantId, nextVisitId>>
        ELSE
            \* assessment.save() raises IntegrityError, which nothing catches
            /\ response' = ServerError(view, method, visit_id, {})
            /\ UNCHANGED db
    ELSE
        /\ response' = Render(view, method, visit_id,
                              "core/doctor_assessment.html",
                              IF method = "POST" THEN {"error"} ELSE {})
        /\ UNCHANGED db

psychiatrist_assessment(auth, method, visit_id, post) ==
    LET view == "psychiatrist_assessment" IN
    IF ~auth THEN
        /\ response' = LoginRedirect(view, method, visit_id)
        /\ UNCHANGED db
    ELSE IF ~VisitExists(visit_id) THEN
        /\ response' = NotFound(view, method, visit_id)
        /\ UNCHANGED db
    ELSE IF PsychiatristDenied(visit_id) THEN
        /\ response' = RedirectOr500(view, method, visit_id,
                                     "core:doctor_assessment", visit_id,
                                     {"warning"})
        /\ UNCHANGED db
    ELSE IF method = "POST" /\ PsychiatristCreateOk(visit_id, post) THEN
        /\ psychiatrist_questionnaire' =
              Insert(psychiatrist_questionnaire,
                     PsychiatristRow(visit_id, post))
        /\ response' = RedirectOrExcept(view, method, visit_id,
                                        "core:lab_request", visit_id,
                                        "core/psychiatrist_assessment.html")
        /\ UNCHANGED <<participants, visits, vitals, doctor_questionnaire,
                       lab_request, nextParticipantId, nextVisitId>>
    ELSE
        /\ response' =
              IF method = "POST"
              THEN RenderExcept(view, method, visit_id,
                                "core/psychiatrist_assessment.html", {"error"},
                                PsychiatristCreateError(visit_id, post))
              ELSE Render(view, method, visit_id,
                          "core/psychiatrist_assessment.html", {})
        /\ UNCHANGED db

\* the lab step inferring completion from the fourth record
create_lab_request_completing(auth, method, visit_id, post) ==
    LET view == "create_lab_request" IN
    IF ~auth THEN
        /\ response' = LoginRedirect(view, method, visit_id)
        /\ UNCHANGED db
    ELSE IF ~VisitExists(visit_id) THEN
        /\ response' = NotFound(view, method, visit_id)
        /\ UNCHANGED db
    ELSE IF LabDenied(visit_id) THEN
        /\ response' = RedirectOr500(view, method, visit_id,
                                     "psychiatrist_assessment", visit_id,
                                     {"warning"})
        /\ UNCHANGED db
    ELSE IF method = "POST" /\ LabCreateOk(visit_id, post) THEN
        /\ lab_request' = Insert(lab_request, LabRow(visit_id, post))
        /\ response' = RedirectOrExcept(view, method, visit_id,
                                        "complete_visit", visit_id,
                                        "core/lab_request.html")
        /\ visits' = {IF v.id = visit_id THEN [v EXCEPT !.completed = TRUE]
                       ELSE v : v \in visits}
        /\ UNCHANGED <<participants, vitals, doctor_questionnaire,
                       psychiatrist_questionnaire, nextParticipantId,
                       nextVisitId>>
    ELSE
        /\ response' =
              IF method = "POST"
              THEN RenderExcept(view, method, visit_id, "core/lab_request.html",
                                {"error"}, LabCreateError(visit_id, post))
              ELSE Render(view, method, visit_id, "core/lab_request.html", {})
        /\ UNCHANGED db

create_lab_request(auth, method, visit_id, post) ==
    LET view == "create_lab_request" IN
    IF ~auth THEN
        /\ response' = LoginRedirect(view, method, visit_id)
        /\ UNCHANGED db
    ELSE IF ~VisitExists(visit_id) THEN
        /\ response' = NotFound(view, method, visit_id)
        /\ UNCHANGED db
    ELSE IF LabDenied(visit_id) THEN
        /\ response' = RedirectOr500(view, method, visit_id,
                                     "psychiatrist_assessment", visit_id,
                                     {"warning"})
        /\ UNCHANGED db
    ELSE IF method = "POST" /\ LabCreateOk(visit_id, post) THEN
        /\ lab_request' = Insert(lab_request, LabRow(visit_id, post))
        /\ response' = RedirectOrExcept(view, method, visit_id,
                                        "complete_visit", visit_id,
                                        "core/lab_request.html")
        /\ UNCHANGED <<participants, visits, vitals, doctor_questionnaire,
                       psychiatrist_questionnaire, nextParticipantId,
                       nextVisitId>>
    ELSE
        /\ response' =
              IF method = "POST"
              THEN RenderExcept(view, method, visit_id, "core/lab_request.html",
                                {"error"}, LabCreateError(visit_id, post))
              ELSE Render(view, method, visit_id, "core/lab_request.html", {})
        /\ UNCHANGED db

\* visit.completed = True without the save
MarkCompleted_unsaved(visit_id) == visits

\* the flag flipped instead of set
MarkCompleted_toggled(visit_id) ==
    {IF v.id = visit_id THEN [v EXCEPT !.completed = ~v.completed] ELSE v :
        v \in visits}

\* visit.completed = True; visit.save()
MarkCompleted(visit_id) ==
    {IF v.id = visit_id THEN [v EXCEPT !.completed = TRUE] ELSE v : v \in visits}

complete_visit(auth, method, visit_id) ==
    LET view == "complete_visit" IN
    IF ~auth THEN
        /\ response' = LoginRedirect(view, method, visit_id)
        /\ UNCHANGED db
    ELSE IF ~VisitExists(visit_id) THEN
        /\ response' = NotFound(view, method, visit_id)
        /\ UNCHANGED db
    ELSE IF CompleteDenied(visit_id) THEN
        /\ response' = RedirectOr500(view, method, visit_id,
                                     "core:lab_request", visit_id,
                                     {"warning"})
        /\ UNCHANGED db
    ELSE IF method = "POST" THEN
        /\ visits' = MarkCompleted(visit_id)
        /\ response' = RedirectOr500(view, method, visit_id, "core:dashboard",
                                     0, {"success"})
        /\ UNCHANGED <<participants, steps, nextParticipantId, nextVisitId>>
    ELSE
        /\ response' = Render(view, method, visit_id,
                              "core/complete_visit.html", {})
        /\ UNCHANGED db

\* Visit.objects.filter(completed=False)
ActiveVisits == {v \in visits : ~v.completed}

\* visits.filter(<relation>__isnull=..., ...).count(): the relations are
\* one-to-one, so the join yields one row for each visit that passes
active_visits(auth, method) ==
    LET view == "active_visits"
        context ==
            [visits_waiting_vitals |->
                Cardinality({v \in ActiveVisits : ~HasAttr(vitals, v.id)}),
             visits_waiting_doctor |->
                Cardinality({v \in ActiveVisits :
                    /\ HasAttr(vitals, v.id)
                    /\ ~HasAttr(doctor_questionnaire, v.id)}),
             visits_waiting_psychiatry |->
                Cardinality({v \in ActiveVisits :
                    /\ HasAttr(doctor_questionnaire, v.id)
                    /\ ~HasAttr(psychiatrist_questionnaire, v.id)}),
             visits_waiting_lab |->
                Cardinality({v \in ActiveVisits :
                    /\ HasAttr(psychiatrist_questionnaire, v.id)
                    /\ ~HasAttr(lab_request, v.id)}),
             progress |->
                [id \in {v.id : v \in ActiveVisits} |->
                    calculate_visit_progress(id)]]
    IN
    IF ~auth THEN
        /\ response' = LoginRedirect(view, method, 0)
        /\ UNCHANGED db
    ELSE
        /\ response' = RenderContext(view, method, 0,
                                     "core/active_visits.html", context)
        /\ UNCHANGED db

\* the status with completed inferred from the lab request
visit_status_inferring(auth, method, visit_id) ==
    LET view == "visit_status"
        visit == CHOOSE v \in visits : v.id = visit_id
        status ==
            [vitals_completed |-> HasAttr(vitals, visit_id),
             doctor_completed |-> HasAttr(doctor_questionnaire, visit_id),
             psychiatrist_completed |->
                HasAttr(psychiatrist_questionnaire, visit_id),
             lab_requested |-> HasAttr(lab_request, visit_id),
             completed |-> HasAttr(lab_request, visit_id)]
    IN
    IF ~auth THEN
        /\ response' = LoginRedirect(view, method, visit_id)
        /\ UNCHANGED db
    ELSE IF ~VisitExists(visit_id) THEN
        /\ response' = NotFound(view, method, visit_id)
        /\ UNCHANGED db
    ELSE
        /\ response' = JsonResponse(view, method, visit_id, status)
        /\ UNCHANGED db

visit_status(auth, method, visit_id) ==
    LET view == "visit_status"
        visit == CHOOSE v \in visits : v.id = visit_id
        status ==
            [vitals_completed |-> HasAttr(vitals, visit_id),
             doctor_completed |-> HasAttr(doctor_questionnaire, visit_id),
             psychiatrist_completed |->
                HasAttr(psychiatrist_questionnaire, visit_id),
             lab_requested |-> HasAttr(lab_request, visit_id),
             completed |-> visit.completed]
    IN
    IF ~auth THEN
        /\ response' = LoginRedirect(view, method, visit_id)
        /\ UNCHANGED db
    ELSE IF ~VisitExists(visit_id) THEN
        /\ response' = NotFound(view, method, visit_id)
        /\ UNCHANGED db
    ELSE
        /\ response' = JsonResponse(view, method, visit_id, status)
        /\ UNCHANGED db

\* one request handled from start to end, no other in flight
Next ==
    \/ \E a \in BOOLEAN, m \in Methods :
          \E post \in Bodies(a, m, EnrollPosts) :
              enroll_participant(a, m, post) /\ UNCHANGED inflight
    \/ \E a \in BOOLEAN, m \in Methods : \E pk \in Ids(a, ParticipantPks) :
          delete_participant(a, m, pk) /\ UNCHANGED inflight
    \/ \E a \in BOOLEAN, m \in Methods : \E pk \in Ids(a, ParticipantPks) :
          \E post \in Bodies(a, m, VisitPosts) :
              create_visit(a, m, pk, post) /\ UNCHANGED inflight
    \/ \E a \in BOOLEAN, m \in Methods : \E id \in Ids(a, VisitPks) :
          \E post \in Bodies(a, m, VitalsPosts) :
              take_vitals(a, m, id, post) /\ UNCHANGED inflight
    \/ \E a \in BOOLEAN, m \in Methods : \E id \in Ids(a, VisitPks) :
          \E post \in Bodies(a, m, DoctorPosts) :
              doctor_assessment(a, m, id, post) /\ UNCHANGED inflight
    \/ \E a \in BOOLEAN, m \in Methods : \E id \in Ids(a, VisitPks) :
          \E post \in Bodies(a, m, PsychiatristPosts) :
              psychiatrist_assessment(a, m, id, post) /\ UNCHANGED inflight
    \/ \E a \in BOOLEAN, m \in Methods : \E id \in Ids(a, VisitPks) :
          \E post \in Bodies(a, m, LabPosts) :
              create_lab_request(a, m, id, post) /\ UNCHANGED inflight
    \/ \E a \in BOOLEAN, m \in Methods : \E id \in Ids(a, VisitPks) :
          complete_visit(a, m, id) /\ UNCHANGED inflight
    \/ \E a \in BOOLEAN, m \in Methods :
          active_visits(a, m) /\ UNCHANGED inflight
    \/ \E a \in BOOLEAN, m \in Methods : \E id \in Ids(a, VisitPks) :
          visit_status(a, m, id) /\ UNCHANGED inflight

Spec == Init /\ [][Next]_vars

----------------------------------------------------------------------------
(* Resubmission: one visit, and the step forms posted over and over with    *)
(* bodies that differ from one submission to the next                       *)

ResubmitVitalsPosts ==
    [blood_pressure_systolic : {"abc", "80", "120"},
     blood_pressure_diastolic : {"80"},
     others : {"72"}]

ResubmitDoctorPosts ==
    [chief_complaint : {"", "Headache", "Fever"},
     others : {"Normal"}]

\* a textarea left empty is sent as the empty string
ResubmitPsychiatristPosts ==
    [mental_status_exam : {None, "", "Stable", "Anxious"},
     others : {"Counseling"}]

ResubmitLabPosts ==
    [urgency : {None, "", "Normal", "URGENT"},
     notes : {"Routine"}]

\* the store after one enrolment and one create_visit
InitVisit ==
    /\ participants = {[id |-> 1, participant_id |-> "PX001"]}
    /\ visits = {[id |-> 1, participant |-> 1, completed |-> FALSE]}
    /\ vitals = EmptyBag
    /\ doctor_questionnaire = EmptyBag
    /\ psychiatrist_questionnaire = EmptyBag
    /\ lab_request = EmptyBag
    /\ nextParticipantId = 2
    /\ nextVisitId = 2
    /\ response = NoResponse
    /\ inflight = [w \in Workers |-> Idle]

NextResubmit ==
    \/ \E id \in VisitPks : \E post \in ResubmitVitalsPosts :
          take_vitals(TRUE, "POST", id, post) /\ UNCHANGED inflight
    \/ \E id \in VisitPks : \E post \in ResubmitDoctorPosts :
          doctor_assessment(TRUE, "POST", id, post) /\ UNCHANGED inflight
    \/ \E id \in VisitPks : \E post \in ResubmitPsychiatristPosts :
          psychiatrist_assessment(TRUE, "POST", id, post) /\ UNCHANGED inflight
    \/ \E id \in VisitPks : \E post \in ResubmitLabPosts :
          create_lab_request(TRUE, "POST", id, post) /\ UNCHANGED inflight

SpecResubmit == InitVisit /\ [][NextResubmit]_vars

----------------------------------------------------------------------------
(* Concurrent submissions: two workers, each handling one POST to a step    *)
(* view.  A worker first loads the visit and evaluates the gate of the      *)
(* view, and later runs the rest of the view, whose INSERT the database     *)
(* checks against the unique index and commits as one step.                 *)

\* the views that record a step
StepViews ==
    {"take_vitals", "doctor_assessment", "psychiatrist_assessment",
     "create_lab_request"}

PostsOf(view) ==
    CASE view = "take_vitals" -> ResubmitVitalsPosts
      [] view = "doctor_assessment" -> ResubmitDoctorPosts
      [] view = "psychiatrist_assessment" -> ResubmitPsychiatristPosts
      [] view = "create_lab_request" -> ResubmitLabPosts

\* the presence check a view makes before it reads the request
GateDenied(view, visit_id) ==
    CASE view = "take_vitals" -> FALSE
      [] view = "doctor_assessment" -> DoctorDenied(visit_id)
      [] view = "psychiatrist_assessment" -> PsychiatristDenied(visit_id)
      [] view = "create_lab_request" -> LabDenied(visit_id)

\* the view run on an authenticated POST
Handle(view, visit_id, post) ==
    CASE view = "take_vitals" -> take_vitals(TRUE, "POST", visit_id, post)
      [] view = "doctor_assessment" ->
            doctor_assessment(TRUE, "POST", visit_id, post)
      [] view = "psychiatrist_assessment" ->
            psychiatrist_assessment(TRUE, "POST", visit_id, post)
      [] view = "create_lab_request" ->
            create_lab_request(TRUE, "POST", visit_id, post)

\* a visit whose first k steps were recorded before the two requests arrive
InitRace ==
    /\ participants = {[id |-> 1, participant_id |-> "PX001"]}
    /\ visits = {[id |-> 1, participant |-> 1, completed |-> FALSE]}
    /\ \E k \in 0..3 :
          /\ vitals =
                IF k >= 1
                THEN SetToBag({VitalsRow(1, [blood_pressure_systolic |-> "120",
                                             blood_pressure_diastolic |-> "80",
                                             others |-> "72"])})
                ELSE EmptyBag
          /\ doctor_questionnaire =
                IF k >= 2
                THEN SetToBag({DoctorRow(1, [chief_complaint |-> "Headache",
                                             others |-> "Normal"])})
                ELSE EmptyBag
          /\ psychiatrist_questionnaire =
                IF k >= 3
                THEN SetToBag({PsychiatristRow(1,
                                  [mental_status_exam |-> "Stable",
                                   others |-> "Counseling"])})
                ELSE EmptyBag
    /\ lab_request = EmptyBag
    /\ nextParticipantId = 2
    /\ nextVisitId = 2
    /\ response = NoResponse
    /\ inflight = [w \in Workers |-> Idle]

\* get_object_or_404 and the gate: the request is turned away, or goes on
\* to the body of the view
Receive(w, view, visit_id, post) ==
    /\ inflight[w].pc = "idle"
    /\ IF ~VisitExists(visit_id) \/ GateDenied(view, visit_id)
       THEN /\ Handle(view, visit_id, post)
            /\ inflight' = [inflight EXCEPT ![w] =
                  [pc |-> "done", view |-> view, id |-> visit_id,
                   post |-> post, stored |-> FALSE, response |-> response']]
       ELSE /\ inflight' = [inflight EXCEPT ![w] =
                  [pc |-> "create", view |-> view, id |-> visit_id,
                   post |-> post, stored |-> FALSE, response |-> NoResponse]]
            /\ UNCHANGED <<db, response>>

\* the body of the view: objects.create / save and the response.  No
\* request removes a record meanwhile, so the visit and the gate are as the
\* worker found them.
Create(w) ==
    LET r == inflight[w] IN
    /\ r.pc = "create"
    /\ Handle(r.view, r.id, r.post)
    /\ inflight' = [inflight EXCEPT ![w] =
          [r EXCEPT !.pc = "done",
                    !.stored = (steps' # steps),
                    !.response = response']]

NextRace ==
    \/ \E w \in Workers, view \in StepViews :
          \E id \in VisitPks : \E post \in PostsOf(view) :
              Receive(w, view, id, post)
    \/ \E w \in Workers : Create(w)

SpecRace == InitRace /\ [][NextRace]_vars

----------------------------------------------------------------------------
(* Vocabulary of the properties *)

\* the request of the step just taken, read off the response it produced
Handled(view) == response'.auth /\ response'.view = view

\* the visit row with the given id is marked completed
IsCompleted(rows, visit_id) == \E v \in rows : v.id = visit_id /\ v.completed

\* the gate of a step turned the request away (it alone queues a warning)
Denied(resp) == "warning" \in resp.messages

\* the step a view serves, its place in the fixed order and its URL name
StepOf(view) ==
    CASE view = "take_vitals" -> "vitals"
      [] view = "doctor_assessment" -> "doctor"
      [] view = "psychiatrist_assessment" -> "psychiatrist"
      [] view = "create_lab_request" -> "lab"
      [] view = "complete_visit" -> "complete"

StepNumber(step) ==
    CASE step = "vitals" -> 1
      [] step = "doctor" -> 2
      [] step = "psychiatrist" -> 3
      [] step = "lab" -> 4
      [] step = "complete" -> 5

UrlOf(step) ==
    CASE step = "vitals" -> "core:vitals"
      [] step = "doctor" -> "core:doctor_assessment"
      [] step = "psychiatrist" -> "core:psychiatrist_assessment"
      [] step = "lab" -> "core:lab_request"
      [] step = "complete" -> "core:complete_visit"

WorkflowViews ==
    {"take_vitals", "doctor_assessment", "psychiatrist_assessment",
     "create_lab_request", "complete_visit"}

\* the first step of the fixed order that the visit has no record of
FirstUnsatisfied(visit_id) ==
    IF ~HasAttr(vitals, visit_id) THEN "vitals"
    ELSE IF ~HasAttr(doctor_questionnaire, visit_id) THEN "doctor"
    ELSE IF ~HasAttr(psychiatrist_questionnaire, visit_id) THEN "psychiatrist"
    ELSE IF ~HasAttr(lab_request, visit_id) THEN "lab"
    ELSE "complete"

\* the visit has exactly one record of each of the first k steps and none
\* of the later ones
ExactlySteps(visit_id, k) ==
    /\ Count(vitals, visit_id) = (IF k >= 1 THEN 1 ELSE 0)
    /\ Count(doctor_questionnaire, visit_id) = (IF k >= 2 THEN 1 ELSE 0)
    /\ Count(psychiatrist_questionnaire, visit_id) = (IF k >= 3 THEN 1 ELSE 0)
    /\ Count(lab_request, visit_id) = (IF k >= 4 THEN 1 ELSE 0)

----------------------------------------------------------------------------
(* C1: in every reachable state a completed visit has a LabRequest record,  *)
(* complete_visit setting the flag only when the lab step is present.       *)
(* Stated as written; the code has no such guard.                           *)
C1_CompletedImpliesLab ==
    \A v \in visits : v.completed => HasAttr(lab_request, v.id)

(* C1, amended: the completed flag turns true only in an authenticated POST *)
(* to complete_visit of that visit; complete_visit never denies or          *)
(* redirects to the lab step, and every authenticated POST to an existing   *)
(* visit sets the flag, with or without a LabRequest record.                *)
C1_CompletedOnlyByCompletePost ==
    [][/\ \A v \in visits' :
            (v.completed /\ ~IsCompleted(visits, v.id))
                => /\ Handled("complete_visit")
                   /\ response'.method = "POST"
                   /\ response'.id = v.id
       /\ (Handled("complete_visit") /\ VisitExists(response'.id))
            => /\ ~Denied(response')
               /\ response'.to # "core:lab_request"
               /\ response'.method = "POST"
                    => IsCompleted(visits', response'.id)]_vars

C1_Witness ==
    /\ response.view = "complete_visit"
    /\ response.method = "POST"
    /\ response.outcome = "redirect"
    /\ IsCompleted(visits, response.id)
    /\ HasAttr(psychiatrist_questionnaire, response.id)
    /\ ~HasAttr(lab_request, response.id)

(* C2: for every visit and each of the four step tables there is at most    *)
(* one row of that table for the visit, whatever was submitted and          *)
(* resubmitted.                                                             *)
C2_AtMostOneRecordPerStep ==
    \A id \in VisitPks :
        /\ Count(vitals, id) <= 1
        /\ Count(doctor_questionnaire, id) <= 1
        /\ Count(psychiatrist_questionnaire, id) <= 1
        /\ Count(lab_request, id) <= 1

\* a vitals POST that failed for a visit that already has its vitals row
C2_Witness ==
    /\ response.view = "take_vitals"
    /\ response.method = "POST"
    /\ response.auth
    /\ response.outcome = "render"
    /\ Count(vitals, response.id) = 1
    /\ Count(doctor_questionnaire, response.id) = 1

(* C3: the step records present for a visit form a prefix of vitals,        *)
(* doctor, psychiatrist, lab: no record exists without the one before it.   *)
C3_StepsFormPrefix ==
    \A id \in VisitPks :
        /\ HasAttr(doctor_questionnaire, id) => HasAttr(vitals, id)
        /\ HasAttr(psychiatrist_questionnaire, id)
              => HasAttr(doctor_questionnaire, id)
        /\ HasAttr(lab_request, id) => HasAttr(psychiatrist_questionnaire, id)

\* a lab request turned away from a visit that stops at the doctor step
C3_Witness ==
    /\ response.view = "create_lab_request"
    /\ response.method = "POST"
    /\ response.auth
    /\ HasAttr(vitals, response.id)
    /\ HasAttr(doctor_questionnaire, response.id)
    /\ ~HasAttr(psychiatrist_questionnaire, response.id)
    /\ ~HasAttr(lab_request, response.id)

(* C4: a request is allowed iff the requested step is the first unsatisfied *)
(* step of the visit, and otherwise it is redirected to the first           *)
(* unsatisfied step; with no step records only vitals is allowed and every  *)
(* other step redirects to vitals.  Stated as written.                      *)
C4_AllowedIffFirstUnsatisfied ==
    [][\A view \in WorkflowViews :
          (Handled(view) /\ VisitExists(response'.id))
             => IF StepOf(view) = FirstUnsatisfied(response'.id)
                THEN ~Denied(response')
                ELSE /\ response'.outcome = "redirect"
                     /\ response'.to = UrlOf(FirstUnsatisfied(response'.id))
                     /\ response'.arg = response'.id]_vars

(* C4, amended: vitals and complete are always allowed; doctor,             *)
(* psychiatrist and lab are allowed iff the record of the step immediately  *)
(* before is present.  A denied doctor request redirects to vitals and a    *)
(* denied psychiatrist request to the doctor step, whichever step is the    *)
(* first unsatisfied one; a denied lab request goes no further than the     *)
(* gate.                                                                    *)
C4_AllowedIffPreviousStepPresent ==
    [][\A view \in WorkflowViews :
          (Handled(view) /\ VisitExists(response'.id))
             => LET id == response'.id
                    gate(to) == Redirect(view, response'.method, id, to, id,
                                         {"warning"})
                IN  CASE view = "take_vitals" -> ~Denied(response')
                      [] view = "complete_visit" -> ~Denied(response')
                      [] view = "doctor_assessment" ->
                            IF HasAttr(vitals, id) THEN ~Denied(response')
                            ELSE response' = gate("core:vitals")
                      [] view = "psychiatrist_assessment" ->
                            IF HasAttr(doctor_questionnaire, id)
                            THEN ~Denied(response')
                            ELSE response' = gate("core:doctor_assessment")
                      [] view = "create_lab_request" ->
                            Denied(response')
                               <=> ~HasAttr(psychiatrist_questionnaire, id)]_vars

\* a psychiatrist request for a visit with no record at all, sent to the
\* doctor step
C4_Witness ==
    /\ response.view = "psychiatrist_assessment"
    /\ response.auth
    /\ VisitExists(response.id)
    /\ FirstUnsatisfied(response.id) = "vitals"
    /\ response.outcome = "redirect"
    /\ response.to = "core:doctor_assessment"

(* C5: an authenticated request (GET or POST) to the doctor step of a visit *)
(* without Vitals is redirected to that visit's vitals step; with Vitals, a *)
(* GET renders the doctor form.                                             *)
C5_DoctorRequiresVitals ==
    [][(Handled("doctor_assessment") /\ VisitExists(response'.id))
          => IF ~HasAttr(vitals, response'.id)
             THEN /\ response'.outcome = "redirect"
                  /\ response'.to = "core:vitals"
                  /\ response'.arg = response'.id
             ELSE response'.method = "GET"
                     => /\ response'.outcome = "render"
                        /\ response'.to = "core/doctor_assessment.html"]_vars

C5_Witness ==
    /\ response.view = "doctor_assessment"
    /\ response.method = "POST"
    /\ response.auth
    /\ VisitExists(response.id)
    /\ ~HasAttr(vitals, response.id)
    /\ response.outcome = "redirect"
    /\ response.to = "core:vitals"

(* C6: an authenticated request to the psychiatrist step of a visit without *)
(* a DoctorQuestionnaire (a visit with no record at all included) is        *)
(* redirected to that visit's doctor assessment step.                       *)
C6_PsychiatristRequiresDoctor ==
    [][(/\ Handled("psychiatrist_assessment")
        /\ VisitExists(response'.id)
        /\ ~HasAttr(doctor_questionnaire, response'.id))
          => /\ response'.outcome = "redirect"
             /\ response'.to = "core:doctor_assessment"
             /\ response'.arg = response'.id]_vars

C6_Witness ==
    /\ response.view = "psychiatrist_assessment"
    /\ response.auth
    /\ VisitExists(response.id)
    /\ HasAttr(vitals, response.id)
    /\ ~HasAttr(doctor_questionnaire, response.id)
    /\ response.outcome = "redirect"
    /\ response.to = "core:doctor_assessment"

(* C7: an authenticated request to the lab step of a visit with Vitals and  *)
(* a DoctorQuestionnaire but no PsychiatristQuestionnaire is answered with  *)
(* a redirect to that visit's psychiatrist step, not with an error.         *)
C7_LabDeniedRedirectsToPsychiatrist ==
    [][(/\ Handled("create_lab_request")
        /\ VisitExists(response'.id)
        /\ HasAttr(vitals, response'.id)
        /\ HasAttr(doctor_questionnaire, response'.id)
        /\ ~HasAttr(psychiatrist_questionnaire, response'.id))
          => /\ response'.outcome = "redirect"
             /\ response'.to = "core:psychiatrist_assessment"
             /\ response'.arg = response'.id]_vars

(* C8: a request to doctor, psychiatrist, lab or complete that is out of    *)
(* order (a step before it is unsatisfied) leaves the step records and the  *)
(* completed flag of every visit as they were.  Stated as written.          *)
C8_OutOfOrderRequestLeavesStore ==
    [][\A view \in WorkflowViews \ {"take_vitals"} :
          (/\ Handled(view)
           /\ VisitExists(response'.id)
           /\ StepNumber(FirstUnsatisfied(response'.id))
                 < StepNumber(StepOf(view)))
             => UNCHANGED db]_vars

(* C8, amended: an out-of-order request to doctor, psychiatrist or lab is   *)
(* denied and leaves the store as it was, and so does every denied request; *)
(* complete_visit has no gate, is never denied, and its POST writes the     *)
(* completed flag of a visit whose steps are missing.                       *)
C8_DeniedRequestLeavesStore ==
    [][/\ \A view \in {"doctor_assessment", "psychiatrist_assessment",
                       "create_lab_request"} :
             (/\ Handled(view)
              /\ VisitExists(response'.id)
              /\ StepNumber(FirstUnsatisfied(response'.id))
                    < StepNumber(StepOf(view)))
                => (Denied(response') /\ UNCHANGED db)
       /\ Denied(response')
             => (UNCHANGED db /\ response'.view # "complete_visit")
       /\ (/\ Handled("complete_visit")
           /\ response'.method = "POST"
           /\ VisitExists(response'.id)
           /\ ~IsCompleted(visits, response'.id))
             => (~Denied(response') /\ visits' # visits)]_vars

\* a POST to the psychiatrist step turned away from a visit with vitals only
C8_Witness ==
    /\ response.view = "psychiatrist_assessment"
    /\ response.method = "POST"
    /\ Denied(response)
    /\ ExactlySteps(response.id, 1)
    /\ VisitExists(response.id)
    /\ ~IsCompleted(visits, response.id)

\* the bodies posted by WorkflowViewTests.test_full_workflow_post
FullWorkflowVitals ==
    [blood_pressure_systolic |-> "120", blood_pressure_diastolic |-> "80",
     others |-> "72"]
FullWorkflowDoctor == [chief_complaint |-> "Headache", others |-> "Normal"]
FullWorkflowPsychiatrist ==
    [mental_status_exam |-> "Stable", others |-> "Counseling"]
FullWorkflowLab == [urgency |-> "Normal", notes |-> "Routine"]

(* C9: from a new visit with no step records, the valid POSTs vitals,       *)
(* doctor, psychiatrist, lab, complete in that order leave the visit with   *)
(* exactly one record of each step and completed true, each record being    *)
(* there right after its own POST.                                          *)
C9_FullWorkflowPost ==
    [][\A id \in VisitPks :
          LET posted(view) ==
                  Handled(view) /\ response'.method = "POST"
                                /\ response'.id = id
          IN  VisitExists(id) =>
            /\ (/\ posted("take_vitals")
                /\ ExactlySteps(id, 0)
                /\ take_vitals(TRUE, "POST", id, FullWorkflowVitals))
                  => ExactlySteps(id, 1)'
            /\ (/\ posted("doctor_assessment")
                /\ ExactlySteps(id, 1)
                /\ doctor_assessment(TRUE, "POST", id, FullWorkflowDoctor))
                  => ExactlySteps(id, 2)'
            /\ (/\ posted("psychiatrist_assessment")
                /\ ExactlySteps(id, 2)
                /\ psychiatrist_assessment(TRUE, "POST", id,
                                           FullWorkflowPsychiatrist))
                  => ExactlySteps(id, 3)'
            /\ (/\ posted("create_lab_request")
                /\ ExactlySteps(id, 3)
                /\ create_lab_request(TRUE, "POST", id, FullWorkflowLab))
                  => ExactlySteps(id, 4)'
            /\ (/\ posted("complete_visit")
                /\ ExactlySteps(id, 4)
                /\ complete_visit(TRUE, "POST", id))
                  => (ExactlySteps(id, 4)' /\ IsCompleted(visits', id))]_vars

C9_Witness ==
    /\ response.view = "complete_visit"
    /\ response.method = "POST"
    /\ response.auth
    /\ ExactlySteps(response.id, 4)
    /\ IsCompleted(visits, response.id)

(* C10: an authenticated POST to the complete step of an existing visit,    *)
(* one with no step records included, sets its completed flag and is        *)
(* answered with a redirect to the dashboard.                               *)
C10_CompletePostSetsFlag ==
    [][(/\ Handled("complete_visit")
        /\ response'.method = "POST"
        /\ VisitExists(response'.id))
          => /\ IsCompleted(visits', response'.id)
             /\ response'.outcome = "redirect"
             /\ response'.to = "core:dashboard"]_vars

C10_Witness ==
    /\ response.view = "complete_visit"
    /\ response.method = "POST"
    /\ response.outcome = "redirect"
    /\ response.to = "core:dashboard"
    /\ ExactlySteps(response.id, 0)
    /\ IsCompleted(visits, response.id)

(* C11: complete_visit is idempotent: a POST to the complete step of a      *)
(* visit that is already completed is answered exactly as the first one     *)
(* was, with the success message and the redirect to the dashboard, and it  *)
(* leaves the store as the first call left it: the flag still true, the     *)
(* step records untouched.                                                  *)
C11_CompleteIdempotent ==
    [][\A id \in VisitPks :
          (/\ Handled("complete_visit")
           /\ response'.method = "POST"
           /\ response'.id = id
           /\ VisitExists(id))
             => /\ response' = Redirect("complete_visit", "POST", id,
                                        "core:dashboard", 0, {"success"})
                /\ IsCompleted(visits', id)
                /\ IsCompleted(visits, id) => UNCHANGED db]_vars

\* a completed visit with two step records, just answered by complete_visit:
\* the state a second POST starts from and ends in
C11_Witness ==
    /\ response.view = "complete_visit"
    /\ response.method = "POST"
    /\ response.auth
    /\ response.messages = {"success"}
    /\ IsCompleted(visits, response.id)
    /\ ExactlySteps(response.id, 2)

(* C12: no step-recording view changes the completed flag: take_vitals,     *)
(* doctor_assessment, psychiatrist_assessment and create_lab_request leave  *)
(* the Visit table as it was, and the flag of a visit turns true only in a  *)
(* POST to complete_visit of that visit.  A visit with all four records and *)
(* completed false is reachable (the witness).                              *)
C12_StepsLeaveCompleted ==
    [][/\ \A view \in StepViews : Handled(view) => UNCHANGED visits
       /\ \A id \in VisitPks :
             (IsCompleted(visits', id) /\ ~IsCompleted(visits, id))
                => /\ Handled("complete_visit")
                   /\ response'.method = "POST"
                   /\ response'.id = id]_vars

\* all four records present, the lab request just stored, completed false
C12_Witness ==
    /\ response.view = "create_lab_request"
    /\ response.method = "POST"
    /\ "success" \in response.messages
    /\ VisitExists(response.id)
    /\ ExactlySteps(response.id, 4)
    /\ ~IsCompleted(visits, response.id)

\* what a view answered, the text of the exception it quotes left aside: the
\* kind of response, the template or target, the levels of the messages
Kind(resp) == <<resp.outcome, resp.to, resp.messages>>

\* the response is the one a view gives to a body it could not store for
\* what the body holds: a value that does not convert, a missing value, a
\* form that is not valid
FailedValidation(resp, view, id) ==
    /\ resp.view = view
    /\ resp.id = id
    /\ resp.method = "POST"
    /\ \/ resp.exception \in {ValueError, NotNullFailed}
       \/ /\ view = "doctor_assessment"
          /\ resp.outcome = "render"
          /\ resp.messages = {"error"}

\* the step just taken is a POST to the view of a body that would have been
\* stored, for a visit that already has the record of that step
DuplicateSubmission(view, id) ==
    /\ Handled(view)
    /\ response'.method = "POST"
    /\ response'.id = id
    /\ CASE view = "take_vitals" ->
              /\ HasAttr(vitals, id)
              /\ \E post \in ResubmitVitalsPosts :
                    /\ VitalsCreateError(id, post) = UniqueFailed
                    /\ take_vitals(TRUE, "POST", id, post)
         [] view = "doctor_assessment" ->
              /\ HasAttr(doctor_questionnaire, id)
              /\ \E post \in ResubmitDoctorPosts :
                    /\ DoctorFormValid(post)
                    /\ doctor_assessment(TRUE, "POST", id, post)
         [] view = "psychiatrist_assessment" ->
              /\ HasAttr(psychiatrist_questionnaire, id)
              /\ \E post \in ResubmitPsychiatristPosts :
                    /\ PsychiatristCreateError(id, post) = UniqueFailed
                    /\ psychiatrist_assessment(TRUE, "POST", id, post)
         [] view = "create_lab_request" ->
              /\ HasAttr(lab_request, id)
              /\ \E post \in ResubmitLabPosts :
                    /\ LabCreateError(id, post) = UniqueFailed
                    /\ create_lab_request(TRUE, "POST", id, post)

\* the table a step view writes
TableOf(view) ==
    CASE view = "take_vitals" -> vitals
      [] view = "doctor_assessment" -> doctor_questionnaire
      [] view = "psychiatrist_assessment" -> psychiatrist_questionnaire
      [] view = "create_lab_request" -> lab_request

TemplateOf(view) ==
    CASE view = "take_vitals" -> "core/vitals.html"
      [] view = "doctor_assessment" -> "core/doctor_assessment.html"
      [] view = "psychiatrist_assessment" -> "core/psychiatrist_assessment.html"
      [] view = "create_lab_request" -> "core/lab_request.html"

(* C13: for each of the four steps, a second submission for a visit that    *)
(* already has the record fails with a conflict outcome that can be told    *)
(* from a validation-error outcome (another kind of response, not the same  *)
(* response with another wording), the store keeps exactly one record of    *)
(* the step, and its payload is the first submission's.  Stated as written. *)
C13_ConflictDistinctFromValidation ==
    [][\A id \in VisitPks : \A view \in StepViews :
          DuplicateSubmission(view, id)
             => /\ "success" \notin response'.messages
                /\ Count(TableOf(view), id)' = 1
                /\ RowsOf(TableOf(view), id)' = RowsOf(TableOf(view), id)
                /\ FailedValidation(response, view, id)
                      => Kind(response') # Kind(response)]_vars

(* C13, amended: a second submission never stores or overwrites anything    *)
(* and is never answered with success: each step table is left as it was,   *)
(* with the one record of the first submission.  The doctor step answers    *)
(* with a server error, the IntegrityError leaving the view.  The vitals,   *)
(* psychiatrist and lab steps answer as they do to a body that fails        *)
(* validation: the form rendered again with one error message; the two      *)
(* answers differ only in the exception text that the message quotes.       *)
C13_DuplicateSubmissionFails ==
    [][\A id \in VisitPks : \A view \in StepViews :
          DuplicateSubmission(view, id)
             => /\ UNCHANGED db
                /\ Count(TableOf(view), id)' = 1
                /\ RowsOf(TableOf(view), id)' = RowsOf(TableOf(view), id)
                /\ IF view = "doctor_assessment"
                   THEN response' = ServerError(view, "POST", id, {})
                   ELSE /\ response' = RenderExcept(view, "POST", id,
                                                    TemplateOf(view), {"error"},
                                                    UniqueFailed)
                        /\ FailedValidation(response, view, id)
                              => /\ Kind(response') = Kind(response)
                                 /\ response'.exception # response.exception]_vars

\* the psychiatrist form posted again for a visit that has its record
C13_Witness ==
    /\ response = RenderExcept("psychiatrist_assessment", "POST", response.id,
                               "core/psychiatrist_assessment.html", {"error"},
                               UniqueFailed)
    /\ Count(psychiatrist_questionnaire, response.id) = 1
    /\ ~HasAttr(lab_request, response.id)

\* the body is one the step would store for a visit without the record
Storable(view, post) ==
    CASE view = "take_vitals" -> VitalsCreateError(0, post) = UniqueFailed
      [] view = "doctor_assessment" -> DoctorFormValid(post)
      [] view = "psychiatrist_assessment" ->
            PsychiatristCreateError(0, post) = UniqueFailed
      [] view = "create_lab_request" -> LabCreateError(0, post) = UniqueFailed

\* the row a step stores for a body
RowOf(view, id, post) ==
    CASE view = "take_vitals" -> VitalsRow(id, post)
      [] view = "doctor_assessment" -> DoctorRow(id, post)
      [] view = "psychiatrist_assessment" -> PsychiatristRow(id, post)
      [] view = "create_lab_request" -> LabRow(id, post)

\* the response reports the uniqueness failure: it quotes the exception, or
\* the exception left the view
Conflict(resp) ==
    /\ "success" \notin resp.messages
    /\ \/ resp.exception = UniqueFailed
       \/ resp.outcome = "server_error"

(* C14: when two requests have both passed the gate of a step and then both *)
(* try to create the record of that step for the same visit, in whichever   *)
(* order the two gate checks and the two INSERTs interleave: the writer     *)
(* whose INSERT comes first stores its payload and is answered with         *)
(* success, the writer that comes second stores nothing and is answered     *)
(* with the uniqueness failure, never with success, and the visit has       *)
(* exactly one record, the first writer's.                                  *)
C14_RaceKeepsFirstWriter ==
    [][\A w \in Workers :
          LET r == inflight[w] IN
          (/\ r.pc = "create"
           /\ inflight'[w].pc = "done"
           /\ Storable(r.view, r.post))
             => /\ Count(TableOf(r.view), r.id)' = 1
                /\ IF ~HasAttr(TableOf(r.view), r.id)
                   THEN /\ inflight'[w].stored
                        /\ "success" \in response'.messages
                        /\ RowsOf(TableOf(r.view), r.id)'
                              = {RowOf(r.view, r.id, r.post)}
                   ELSE /\ ~inflight'[w].stored
                        /\ UNCHANGED db
                        /\ Conflict(response')
                        /\ \A o \in Workers \ {w} :
                              (/\ inflight[o].stored
                               /\ inflight[o].view = r.view
                               /\ inflight[o].id = r.id)
                                 => RowsOf(TableOf(r.view), r.id)'
                                       = {RowOf(r.view, r.id,
                                                inflight[o].post)}]_vars

\* two psychiatrist submissions with different bodies, both past the gate:
\* one stored its row, the other was answered with the uniqueness failure
C14_Witness ==
    \E w1, w2 \in Workers :
        /\ w1 # w2
        /\ inflight[w1].pc = "done"
        /\ inflight[w2].pc = "done"
        /\ inflight[w1].view = "psychiatrist_assessment"
        /\ inflight[w2].view = "psychiatrist_assessment"
        /\ inflight[w1].id = inflight[w2].id
        /\ inflight[w1].post # inflight[w2].post
        /\ inflight[w1].stored
        /\ Storable("psychiatrist_assessment", inflight[w2].post)
        /\ ~inflight[w2].stored
        /\ inflight[w2].response.exception = UniqueFailed
        /\ RowsOf(psychiatrist_questionnaire, inflight[w1].id)
              = {PsychiatristRow(inflight[w1].id, inflight[w1].post)}

\* the step variants that the visit has a record of
StepsPresent(id) == {view \in StepViews : HasAttr(TableOf(view), id)}

(* C15: for every visit calculate_visit_progress is exactly the number of   *)
(* step variants (vitals, doctor, psychiatrist, lab) that have a record for *)
(* the visit, a value in 0..4; it is what active_visits attaches to each    *)
(* visit it lists; and it is the same before and after the completed flag   *)
(* of the visit is set.                                                     *)
C15_ProgressCountsSteps ==
    [][/\ \A id \in VisitPks :
             VisitExists(id)' =>
                /\ calculate_visit_progress(id)' = Cardinality(StepsPresent(id)')
                /\ calculate_visit_progress(id)' \in 0..4
                /\ (IsCompleted(visits', id) /\ ~IsCompleted(visits, id))
                      => calculate_visit_progress(id)'
                            = calculate_visit_progress(id)
       /\ Handled("active_visits")
             => \A id \in DOMAIN response'.data.progress :
                   response'.data.progress[id] = Cardinality(StepsPresent(id))]_vars

\* active_visits listing a visit with three of the four records
C15_Witness ==
    /\ response.view = "active_visits"
    /\ response.auth
    /\ \E id \in DOMAIN response.data.progress :
          /\ response.data.progress[id] = 3
          /\ ExactlySteps(id, 3)

(* C16: along every sequence of requests (step submissions, denied          *)
(* requests, failed submissions, complete, status and listing requests) the *)
(* progress count of a visit that is not deleted never decreases from one   *)
(* state to the next.                                                       *)
C16_ProgressNeverDecreases ==
    [][\A id \in VisitPks :
          (VisitExists(id) /\ VisitExists(id)')
             => calculate_visit_progress(id)' >= calculate_visit_progress(id)]_vars

\* a visit at progress 3 whose doctor form was posted again and refused
C16_Witness ==
    /\ response.view = "doctor_assessment"
    /\ response.method = "POST"
    /\ response.outcome = "server_error"
    /\ VisitExists(response.id)
    /\ calculate_visit_progress(response.id) = 3

(* C18: for every existing visit the visit_status endpoint answers with a   *)
(* JSON object of exactly the five boolean fields vitals_completed,         *)
(* doctor_completed, psychiatrist_completed, lab_requested and completed;   *)
(* each of the first four is true iff the visit has the record of that      *)
(* step, completed is the flag of the visit, and the store is left as it    *)
(* was.                                                                     *)
C18_StatusReportsStore ==
    [][(Handled("visit_status") /\ VisitExists(response'.id))
          => LET id == response'.id
                 status == response'.data
             IN
             /\ response'.outcome = "json"
             /\ DOMAIN status = {"vitals_completed", "doctor_completed",
                                 "psychiatrist_completed", "lab_requested",
                                 "completed"}
             /\ \A field \in DOMAIN status : status[field] \in BOOLEAN
             /\ status.vitals_completed <=> Count(vitals, id) > 0
             /\ status.doctor_completed <=> Count(doctor_questionnaire, id) > 0
             /\ status.psychiatrist_completed
                   <=> Count(psychiatrist_questionnaire, id) > 0
             /\ status.lab_requested <=> Count(lab_request, id) > 0
             /\ status.completed <=> IsCompleted(visits, id)
             /\ UNCHANGED db]_vars

\* the status of a visit completed after two steps
C18_Witness ==
    /\ response.view = "visit_status"
    /\ response.outcome = "json"
    /\ response.data.vitals_completed
    /\ response.data.doctor_completed
    /\ ~response.data.psychiatrist_completed
    /\ ~response.data.lab_requested
    /\ response.data.completed

(* C19: once the completed flag of a visit is true, no later request        *)
(* creates a step record for it: as long as the visit exists, its step      *)
(* records are those it had when it was completed.  Stated as written.      *)
C19_CompletedVisitKeepsSteps ==
    [][\A id \in VisitPks :
          (IsCompleted(visits, id) /\ VisitExists(id)')
             => \A view \in StepViews :
                   RowsOf(TableOf(view), id)' = RowsOf(TableOf(view), id)]_vars

(* C19, amended: once the completed flag of a visit is true it stays true,  *)
(* and no later request replaces or duplicates a step record the visit has: *)
(* every record stays as it was stored, one per step, so a visit completed  *)
(* with all four records keeps exactly those.  The step views never read    *)
(* the flag: a visit completed before all its steps were recorded still     *)
(* takes the missing records, in the order of the gates (a valid vitals     *)
(* POST to a completed visit without vitals stores the record).             *)
C19_CompletedVisitKeepsRecordsItHas ==
    [][\A id \in VisitPks :
          (IsCompleted(visits, id) /\ VisitExists(id)')
             => /\ IsCompleted(visits', id)
                /\ \A view \in StepViews :
                      /\ RowsOf(TableOf(view), id) \subseteq
                            RowsOf(TableOf(view), id)'
                      /\ Count(TableOf(view), id)' <= 1
                /\ ExactlySteps(id, 4) => ExactlySteps(id, 4)'
                /\ (/\ Handled("take_vitals")
                    /\ response'.method = "POST"
                    /\ response'.id = id
                    /\ ~HasAttr(vitals, id)
                    /\ take_vitals(TRUE, "POST", id, FullWorkflowVitals))
                      => /\ RowsOf(vitals, id)'
                               = {VitalsRow(id, FullWorkflowVitals)}
                         /\ "success" \in response'.messages]_vars

\* a visit completed with no record, whose vitals were stored afterwards
C19_Witness ==
    /\ response.view = "take_vitals"
    /\ response.method = "POST"
    /\ "success" \in response.messages
    /\ IsCompleted(visits, response.id)
    /\ ExactlySteps(response.id, 1)

(* C20: an authenticated request, GET or POST, to a workflow step (vitals,  *)
(* doctor, psychiatrist, lab, complete) or to the status endpoint with a    *)
(* visit id that no visit has ends with the not-found outcome and leaves    *)
(* every table as it was: no visit and no step record is created.           *)
C20_UnknownVisitNotFound ==
    [][\A view \in WorkflowViews \cup {"visit_status"} :
          (Handled(view) /\ \A v \in visits : v.id # response'.id)
             => /\ response'.outcome = "not_found"
                /\ response'.messages = {}
                /\ UNCHANGED db]_vars

\* the status of a visit asked for after its participant was deleted
C20_Witness ==
    /\ response.view = "visit_status"
    /\ response.auth
    /\ response.outcome = "not_found"
    /\ nextVisitId > response.id
    /\ visits = {}

----------------------------------------------------------------------------
(* Listing: several open visits of one participant taken through the       *)
(* workflow side by side, and the active visits page                        *)

\* the store after one enrolment and ListedVisits create_visit requests
InitListing ==
    /\ participants = {[id |-> 1, participant_id |-> "PX001"]}
    /\ visits = {[id |-> id, participant |-> 1, completed |-> FALSE] :
                    id \in ListedPks}
    /\ vitals = EmptyBag
    /\ doctor_questionnaire = EmptyBag
    /\ psychiatrist_questionnaire = EmptyBag
    /\ lab_request = EmptyBag
    /\ nextParticipantId = 2
    /\ nextVisitId = ListedVisits + 1
    /\ response = NoResponse
    /\ inflight = [w \in Workers |-> Idle]

NextListing ==
    \/ \E id \in ListedPks :
          take_vitals(TRUE, "POST", id, FullWorkflowVitals)
             /\ UNCHANGED inflight
    \/ \E id \in ListedPks :
          doctor_assessment(TRUE, "POST", id, FullWorkflowDoctor)
             /\ UNCHANGED inflight
    \/ \E id \in ListedPks :
          psychiatrist_assessment(TRUE, "POST", id, FullWorkflowPsychiatrist)
             /\ UNCHANGED inflight
    \/ \E id \in ListedPks :
          create_lab_request(TRUE, "POST", id, FullWorkflowLab)
             /\ UNCHANGED inflight
    \/ \E id \in ListedPks :
          complete_visit(TRUE, "POST", id) /\ UNCHANGED inflight
    \/ active_visits(TRUE, "GET") /\ UNCHANGED inflight

SpecListing == InitListing /\ [][NextListing]_vars

\* the open visits whose first missing step is the given one
WaitingFor(step) ==
    {v.id : v \in {x \in visits : ~x.completed /\ FirstUnsatisfied(x.id) = step}}

(* C17: the four counters of active_visits partition the visits that are    *)
(* not completed and have no lab request by their first missing step: each  *)
(* such visit is counted in the bucket of that step and in no other, and a  *)
(* completed visit is counted in none.  Three visits with no record, vitals *)
(* only, and vitals with doctor give 1, 1, 1, 0 (the witness).              *)
C17_BucketsPartitionActiveVisits ==
    [][Handled("active_visits")
          => LET c == response'.data IN
             /\ c.visits_waiting_vitals = Cardinality(WaitingFor("vitals"))
             /\ c.visits_waiting_doctor = Cardinality(WaitingFor("doctor"))
             /\ c.visits_waiting_psychiatry
                   = Cardinality(WaitingFor("psychiatrist"))
             /\ c.visits_waiting_lab = Cardinality(WaitingFor("lab"))
             /\ c.visits_waiting_vitals + c.visits_waiting_doctor
                   + c.visits_waiting_psychiatry + c.visits_waiting_lab
                   = Cardinality({v \in visits :
                        ~v.completed /\ ~HasAttr(lab_request, v.id)})]_vars

\* the page for three open visits: no record, vitals only, vitals and doctor
C17_Witness ==
    /\ response.view = "active_visits"
    /\ response.auth
    /\ response.data.visits_waiting_vitals = 1
    /\ response.data.visits_waiting_doctor = 1
    /\ response.data.visits_waiting_psychiatry = 1
    /\ response.data.visits_waiting_lab = 0
    /\ \E a, b, c \in ListedPks :
          /\ {v.id : v \in visits} = {a, b, c}
          /\ \A v \in visits : ~v.completed
          /\ ExactlySteps(a, 0)
          /\ ExactlySteps(b, 1)
          /\ ExactlySteps(c, 2)

----------------------------------------------------------------------------
(* Payloads *)

\* the columns declared as IntegerField that a body names
IntegerFields == {"blood_pressure_systolic", "blood_pressure_diastolic"}

\* the body breaks what models.py declares for the record: a key is absent,
\* an integer column is given text that is no number, or a text column other
\* than LabRequest.notes (blank=True) is left empty
InvalidPayload(post) ==
    \E f \in DOMAIN post :
        \/ post[f] = None
        \/ f \in IntegerFields /\ ~IsInt(post[f])
        \/ f # "notes" /\ post[f] = ""

\* the part of the invalid bodies that the step views turn down: a key is
\* absent, an integer column does not convert, or the doctor form has an
\* empty field
Refused(view, post) ==
    \/ \E f \in DOMAIN post : post[f] = None
    \/ \E f \in DOMAIN post \cap IntegerFields : ~IsInt(post[f])
    \/ view = "doctor_assessment" /\ \E f \in DOMAIN post : post[f] = ""

\* the view answered by showing its own form again with an error message
FormAgain(resp, view) ==
    /\ resp.outcome = "render"
    /\ resp.to = TemplateOf(view)
    /\ resp.messages = {"error"}

VitalsFormClean(post) ==
    LET systolic == post.blood_pressure_systolic
        diastolic == post.blood_pressure_diastolic
    IN  ~(IsInt(systolic) /\ IsInt(diastolic) /\ int(systolic) <= int(diastolic))

(* C22: a valid authenticated POST to take_vitals for a visit without       *)
(* vitals creates the Vitals record of that visit, with the values posted,  *)
(* and is answered with a redirect to the doctor assessment step of the     *)
(* same visit.                                                              *)
C22_VitalsPostCreatesRecord ==
    [][\A id \in VisitPks : \A post \in ResubmitVitalsPosts :
          (/\ VisitExists(id)
           /\ ~HasAttr(vitals, id)
           /\ ~InvalidPayload(post)
           /\ VitalsFormClean(post)
           /\ take_vitals(TRUE, "POST", id, post))
             => /\ Count(vitals, id)' = 1
                /\ RowsOf(vitals, id)' = {VitalsRow(id, post)}
                /\ response' = Redirect("take_vitals", "POST", id,
                                        "core:doctor_assessment", id,
                                        {"success"})]_vars

\* the vitals 120 over 80 just stored for a visit that had no record
C22_Witness ==
    /\ response = Redirect("take_vitals", "POST", response.id,
                           "core:doctor_assessment", response.id, {"success"})
    /\ ExactlySteps(response.id, 1)
    /\ RowsOf(vitals, response.id) = {VitalsRow(response.id, FullWorkflowVitals)}

(* C23: a valid authenticated POST to enroll_participant with a             *)
(* participant_id not yet in use creates exactly one participant with that  *)
(* id and is answered with a redirect to the dashboard, core:dashboard.     *)
(* Stated as written; the view redirects to the name 'dashboard'.           *)
C23_EnrollRedirectsToDashboard ==
    [][\A post \in EnrollPosts :
          (/\ ~InvalidPayload(post)
           /\ \A p \in participants : p.participant_id # post.participant_id
           /\ enroll_participant(TRUE, "POST", post))
             => /\ Cardinality({p \in participants' :
                       p.participant_id = post.participant_id}) = 1
                /\ Cardinality(participants') = Cardinality(participants) + 1
                /\ response'.outcome = "redirect"
                /\ response'.to = "core:dashboard"]_vars

----------------------------------------------------------------------------
(* The pages, reports and API endpoints that only read the store *)

\* the export formats a client may post, and the search strings it may send
ExportFormats == {"csv", "excel", "pdf"}
Queries == {"", "PX"}

dashboard(auth, method) ==
    LET view == "dashboard"
        context == [participants |-> {p.id : p \in participants},
                    active_visits |-> {v.id : v \in ActiveVisits}]
    IN
    /\ response' = IF ~auth THEN LoginRedirect(view, method, 0)
                   ELSE RenderContext(view, method, 0, "core/dashboard.html",
                                      context)
    /\ UNCHANGED db

participant_list(auth, method) ==
    LET view == "participant_list"
        context == [participants |-> {p.id : p \in participants}]
    IN
    /\ response' = IF ~auth THEN LoginRedirect(view, method, 0)
                   ELSE RenderContext(view, method, 0,
                                      "core/participant_list.html", context)
    /\ UNCHANGED db

participant_detail(auth, method, participant_id) ==
    LET view == "participant_detail"
        context ==
            [participant |-> participant_id,
             visits |-> {v.id : v \in {w \in visits :
                                          w.participant = participant_id}}]
    IN
    /\ response' =
          IF ~auth THEN LoginRedirect(view, method, participant_id)
          ELSE IF ~ParticipantExists(participant_id)
          THEN NotFound(view, method, participant_id)
          ELSE RenderContext(view, method, participant_id,
                             "core/participant_detail.html", context)
    /\ UNCHANGED db

\* the request carries no filter parameters
completed_visits(auth, method) ==
    LET view == "completed_visits"
        context == [visits |-> {v.id : v \in {w \in visits : w.completed}}]
    IN
    /\ response' = IF ~auth THEN LoginRedirect(view, method, 0)
                   ELSE RenderContext(view, method, 0,
                                      "core/completed_visits.html", context)
    /\ UNCHANGED db

study_progress_report(auth, method) ==
    LET view == "study_progress_report"
        context ==
            [total_participants |-> Cardinality(participants),
             total_visits |-> Cardinality(visits),
             completed_visits |-> Cardinality({v \in visits : v.completed}),
             active_visits_count |-> Cardinality(ActiveVisits)]
    IN
    /\ response' = IF ~auth THEN LoginRedirect(view, method, 0)
                   ELSE RenderContext(view, method, 0,
                                      "core/study_progress_report.html",
                                      context)
    /\ UNCHANGED db

\* the request carries no filter parameters
visit_summary_report(auth, method) ==
    LET view == "visit_summary_report"
        context == [visits |-> {v.id : v \in visits}]
    IN
    /\ response' = IF ~auth THEN LoginRedirect(view, method, 0)
                   ELSE RenderContext(view, method, 0,
                                      "core/visit_summary_report.html", context)
    /\ UNCHANGED db

\* export_participants_csv: the attachment with one row per participant
participant_data_export(auth, method, format) ==
    LET view == "participant_data_export"
        rows == [rows |-> {p.participant_id : p \in participants}]
        csv(msgs) ==
            [Response(view, method, TRUE, 0, "csv", "participants_export.csv",
                      0, msgs) EXCEPT !.data = rows]
    IN
    /\ response' =
          IF ~auth THEN LoginRedirect(view, method, 0)
          ELSE IF method = "POST" /\ format = "csv" THEN csv({})
          ELSE IF method = "POST" /\ format = "excel" THEN csv({"info"})
          ELSE Render(view, method, 0, "core/participant_data_export.html", {})
    /\ UNCHANGED db

\* every participant_id of EnrollPosts contains the one non-empty query
participant_search(auth, method, query) ==
    LET view == "participant_search"
        results ==
            [results |-> IF query = "" THEN {}
                         ELSE {p.participant_id : p \in participants}]
    IN
    /\ response' = IF ~auth THEN LoginRedirect(view, method, 0)
                   ELSE JsonResponse(view, method, 0, results)
    /\ UNCHANGED db

\* the enrolment bodies with every field filled in
ValidEnrollPosts == {post \in EnrollPosts : ~InvalidPayload(post)}

\* Every view of urls.py requested without a session, while signed-in staff
\* enrol participants, take visits through the workflow with the bodies of
\* the tests, delete participants and read the pages and reports.
NextAllViews ==
    \/ \E m \in Methods : dashboard(FALSE, m) /\ UNCHANGED inflight
    \/ \E m \in Methods : \E post \in Bodies(FALSE, m, EnrollPosts) :
          enroll_participant(FALSE, m, post) /\ UNCHANGED inflight
    \/ \E m \in Methods : participant_list(FALSE, m) /\ UNCHANGED inflight
    \/ \E m \in Methods : \E pk \in ParticipantPks :
          participant_detail(FALSE, m, pk) /\ UNCHANGED inflight
    \/ \E m \in Methods : \E pk \in ParticipantPks :
          delete_participant(FALSE, m, pk) /\ UNCHANGED inflight
    \/ \E m \in Methods : \E id \in VisitPks :
          take_vitals(FALSE, m, id, FullWorkflowVitals) /\ UNCHANGED inflight
    \/ \E m \in Methods : \E id \in VisitPks :
          doctor_assessment(FALSE, m, id, FullWorkflowDoctor)
             /\ UNCHANGED inflight
    \/ \E m \in Methods : \E id \in VisitPks :
          psychiatrist_assessment(FALSE, m, id, FullWorkflowPsychiatrist)
             /\ UNCHANGED inflight
    \/ \E m \in Methods : \E id \in VisitPks :
          create_lab_request(FALSE, m, id, FullWorkflowLab)
             /\ UNCHANGED inflight
    \/ \E m \in Methods : \E id \in VisitPks :
          complete_visit(FALSE, m, id) /\ UNCHANGED inflight
    \/ \E m \in Methods : active_visits(FALSE, m) /\ UNCHANGED inflight
    \/ \E m \in Methods : completed_visits(FALSE, m) /\ UNCHANGED inflight
    \/ \E m \in Methods : \E pk \in ParticipantPks :
          create_visit(FALSE, m, pk, "BASELINE") /\ UNCHANGED inflight
    \/ \E m \in Methods :
          study_progress_report(FALSE, m) /\ UNCHANGED inflight
    \/ \E m \in Methods : \E format \in ExportFormats :
          participant_data_export(FALSE, m, format) /\ UNCHANGED inflight
    \/ \E m \in Methods :
          visit_summary_report(FALSE, m) /\ UNCHANGED inflight
    \/ \E m \in Methods : \E query \in Queries :
          participant_search(FALSE, m, query) /\ UNCHANGED inflight
    \/ \E m \in Methods : \E id \in VisitPks :
          visit_status(FALSE, m, id) /\ UNCHANGED inflight
    \/ \E post \in ValidEnrollPosts :
          enroll_participant(TRUE, "POST", post) /\ UNCHANGED inflight
    \/ \E pk \in ParticipantPks :
          delete_participant(TRUE, "POST", pk) /\ UNCHANGED inflight
    \/ \E pk \in ParticipantPks :
          create_visit(TRUE, "POST", pk, "BASELINE") /\ UNCHANGED inflight
    \/ \E id \in VisitPks :
          take_vitals(TRUE, "POST", id, FullWorkflowVitals)
             /\ UNCHANGED inflight
    \/ \E id \in VisitPks :
          doctor_assessment(TRUE, "POST", id, FullWorkflowDoctor)
             /\ UNCHANGED inflight
    \/ \E id \in VisitPks :
          psychiatrist_assessment(TRUE, "POST", id, FullWorkflowPsychiatrist)
             /\ UNCHANGED inflight
    \/ \E id \in VisitPks :
          create_lab_request(TRUE, "POST", id, FullWorkflowLab)
             /\ UNCHANGED inflight
    \/ \E id \in VisitPks :
          complete_visit(TRUE, "POST", id) /\ UNCHANGED inflight
    \/ \E m \in Methods : dashboard(TRUE, m) /\ UNCHANGED inflight
    \/ \E m \in Methods : participant_list(TRUE, m) /\ UNCHANGED inflight
    \/ \E m \in Methods : \E pk \in ParticipantPks :
          participant_detail(TRUE, m, pk) /\ UNCHANGED inflight
    \/ \E m \in Methods : completed_visits(TRUE, m) /\ UNCHANGED inflight
    \/ \E m \in Methods :
          study_progress_report(TRUE, m) /\ UNCHANGED inflight
    \/ \E m \in Methods : \E format \in ExportFormats :
          participant_data_export(TRUE, m, format) /\ UNCHANGED inflight
    \/ \E m \in Methods :
          visit_summary_report(TRUE, m) /\ UNCHANGED inflight
    \/ \E m \in Methods : \E query \in Queries :
          participant_search(TRUE, m, query) /\ UNCHANGED inflight

SpecAllViews == Init /\ [][NextAllViews]_vars

(* C24: every request made without an authenticated session, to any view    *)
(* of urls.py (dashboard, enrolment, participant deletion, every workflow   *)
(* step, complete, the lists, the reports, the API endpoints), GET or POST, *)
(* is answered with a redirect to the login page and leaves every persisted *)
(* record as it was.                                                        *)
C24_AnonymousRequestRedirected ==
    [][~response'.auth
          => /\ response'.outcome = "redirect"
             /\ response'.to = LOGIN_URL
             /\ response'.messages = {}
             /\ UNCHANGED db]_vars

\* an anonymous POST to delete_participant turned away while the participant
\* has a visit with all four records
C24_Witness ==
    /\ response = LoginRedirect("delete_participant", "POST", response.id)
    /\ ParticipantExists(response.id)
    /\ \E v \in visits : v.participant = response.id /\ ExactlySteps(v.id, 4)

----------------------------------------------------------------------------
(* Deletion: several participants with open visits, taken through the       *)
(* workflow and deleted                                                     *)

\* the participant of a visit of InitCascade: the first participant has the
\* visits 1 and 2, every other participant pk has the visit pk + 1
OwnerOf(visit_id) == IF visit_id = 1 THEN 1 ELSE visit_id - 1

\* the participant_id values of the enrolments, in the order they were made
EnrolledIds == <<"PX001", "PX002", "PX003", "PX004">>

\* the store after Enrolled enrolments and the create_visit requests
InitCascade ==
    /\ participants = {[id |-> pk, participant_id |-> EnrolledIds[pk]] :
                          pk \in EnrolledPks}
    /\ visits = {[id |-> id, participant |-> OwnerOf(id), completed |-> FALSE] :
                    id \in EnrolledVisitPks}
    /\ vitals = EmptyBag
    /\ doctor_questionnaire = EmptyBag
    /\ psychiatrist_questionnaire = EmptyBag
    /\ lab_request = EmptyBag
    /\ nextParticipantId = Enrolled + 1
    /\ nextVisitId = Enrolled + 2
    /\ response = NoResponse
    /\ inflight = [w \in Workers |-> Idle]

NextCascade ==
    \/ \E id \in EnrolledVisitPks :
          take_vitals(TRUE, "POST", id, FullWorkflowVitals)
             /\ UNCHANGED inflight
    \/ \E id \in EnrolledVisitPks :
          doctor_assessment(TRUE, "POST", id, FullWorkflowDoctor)
             /\ UNCHANGED inflight
    \/ \E id \in EnrolledVisitPks :
          psychiatrist_assessment(TRUE, "POST", id, FullWorkflowPsychiatrist)
             /\ UNCHANGED inflight
    \/ \E id \in EnrolledVisitPks :
          create_lab_request(TRUE, "POST", id, FullWorkflowLab)
             /\ UNCHANGED inflight
    \/ \E m \in Methods : \E pk \in EnrolledPks :
          delete_participant(TRUE, m, pk) /\ UNCHANGED inflight

SpecCascade == InitCascade /\ [][NextCascade]_vars

\* the tables that hold the step records
StepTables ==
    {vitals, doctor_questionnaire, psychiatrist_questionnaire, lab_request}

\* every step record points at a visit of the Visit table, every visit at a
\* participant of the Participant table
ReferentialIntegrity ==
    /\ \A table \in StepTables : \A r \in BagToSet(table) : VisitExists(r.visit)
    /\ \A v \in visits : ParticipantExists(v.participant)

\* the step records of a visit, table by table, with their multiplicities
RecordsOf(visit_id) ==
    <<RowsOf(vitals, visit_id), Count(vitals, visit_id),
      RowsOf(doctor_questionnaire, visit_id),
      Count(doctor_questionnaire, visit_id),
      RowsOf(psychiatrist_questionnaire, visit_id),
      Count(psychiatrist_questionnaire, visit_id),
      RowsOf(lab_request, visit_id), Count(lab_request, visit_id)>>

NoRecords == <<{}, 0, {}, 0, {}, 0, {}, 0>>

(* C25: a POST to delete_participant removes the participant, all visits of *)
(* that participant and all step records of those visits, and leaves the    *)
(* other participants, their visits and the records of their visits as they *)
(* were; in every reachable state each step record belongs to an existing   *)
(* visit and each visit to an existing participant.                         *)
C25_DeleteCascades ==
    /\ []ReferentialIntegrity
    /\ [][\A pk \in EnrolledPks :
             (/\ Handled("delete_participant")
              /\ response'.method = "POST"
              /\ response'.id = pk
              /\ ParticipantExists(pk))
                => /\ participants' = {p \in participants : p.id # pk}
                   /\ visits' = {v \in visits : v.participant # pk}
                   /\ \A v \in visits :
                         RecordsOf(v.id)' = IF v.participant = pk
                                            THEN NoRecords
                                            ELSE RecordsOf(v.id)]_vars

\* the first participant deleted with its two visits; the second participant,
\* its visit and the four records of that visit are still there
C25_Witness ==
    /\ response.view = "delete_participant"
    /\ response.method = "POST"
    /\ response.auth
    /\ response.id = 1
    /\ ~ParticipantExists(1)
    /\ ParticipantExists(2)
    /\ {v.id : v \in visits} = EnrolledVisitPks \ {1, 2}
    /\ ExactlySteps(3, 4)
    /\ BagCardinality(vitals) = 1

(* C26: re-entry to a satisfied step is not guarded.  For a visit that      *)
(* already has the record of a step (vitals, doctor, psychiatrist or lab),  *)
(* a GET of that step is not redirected and renders the form of the step    *)
(* again, and a POST of it is not turned away by a gate either: a body that *)
(* could be stored reaches the INSERT, fails on the unique index and leaves *)
(* the store as it was.                                                     *)
C26_ReentryNotGuarded ==
    [][\A id \in VisitPks : \A view \in StepViews :
          (/\ Handled(view)
           /\ response'.id = id
           /\ VisitExists(id)
           /\ HasAttr(TableOf(view), id))
             => /\ ~Denied(response')
                /\ response'.outcome # "redirect"
                /\ UNCHANGED db
                /\ response'.method = "GET"
                      => response' = Render(view, "GET", id, TemplateOf(view), {})
                /\ \A post \in PostsOf(view) :
                      (Storable(view, post) /\ Handle(view, id, post))
                         => Conflict(response')]_vars

\* the vitals form rendered again for a visit that has gone on to the doctor
\* and psychiatrist steps
C26_Witness ==
    /\ response = Render("take_vitals", "GET", response.id, "core/vitals.html",
                         {})
    /\ VisitExists(response.id)
    /\ ExactlySteps(response.id, 3)

(* C27: vitals whose systolic pressure is not greater than the diastolic    *)
(* pressure are rejected: a submission to the vitals step with              *)
(* blood_pressure_systolic <= blood_pressure_diastolic creates no Vitals    *)
(* record, so every Vitals record stored through the step has systolic >    *)
(* diastolic.  Stated as written; the rule is VitalsForm.clean, and         *)
(* take_vitals does not run the form.                                       *)
C27_SystolicAboveDiastolic ==
    [][/\ \A id \in VisitPks : \A post \in ResubmitVitalsPosts :
             (~VitalsFormClean(post) /\ take_vitals(TRUE, "POST", id, post))
                => UNCHANGED vitals
       /\ \A r \in BagToSet(vitals') :
             r.blood_pressure_systolic > r.blood_pressure_diastolic]_vars

----------------------------------------------------------------------------
(* A client that follows the redirects of the gates *)

\* the views whose gate turns a request away
GatedViews ==
    {"doctor_assessment", "psychiatrist_assessment", "create_lab_request"}

\* the URL name that the gate of a view passes to redirect()
DenyTarget(view) ==
    CASE view = "doctor_assessment" -> "core:vitals"
      [] view = "psychiatrist_assessment" -> "core:doctor_assessment"
      [] view = "create_lab_request" -> "psychiatrist_assessment"

\* the view that urls.py routes a step's URL name to
ViewAt(name) ==
    CASE name = "core:vitals" -> "take_vitals"
      [] name = "core:doctor_assessment" -> "doctor_assessment"
      [] name = "core:psychiatrist_assessment" -> "psychiatrist_assessment"
      [] name = "core:lab_request" -> "create_lab_request"

\* Where a client ends that sends a GET to the view and then follows each
\* redirect of a gate: at a rendered form, at a server error (the gate's
\* redirect raised NoReverseMatch), or back at a view it already asked
\* (seen).  A GET and a denied request leave the store as it is, so the
\* chain is a function of the state.
RECURSIVE Follow(_, _, _)
Follow(view, visit_id, seen) ==
    IF view \in seen
    THEN [outcome |-> "cycle", view |-> view, redirects |-> Cardinality(seen)]
    ELSE IF ~GateDenied(view, visit_id)
    THEN [outcome |-> "render", view |-> view, redirects |-> Cardinality(seen)]
    ELSE IF ~Reverse(DenyTarget(view))
    THEN [outcome |-> "server_error", view |-> view,
          redirects |-> Cardinality(seen)]
    ELSE Follow(ViewAt(DenyTarget(view)), visit_id, seen \cup {view})

\* what the views answer is what the client of Follow goes by: a request to
\* a gated view is turned away iff its gate denies, with a redirect to the
\* gate's target for the same visit, or with a server error when the target
\* does not reverse
GateAnswers ==
    \A view \in GatedViews :
        (Handled(view) /\ VisitExists(response'.id))
           => IF ~GateDenied(view, response'.id) THEN ~Denied(response')
              ELSE IF Reverse(DenyTarget(view))
              THEN response' = Redirect(view, response'.method, response'.id,
                                        DenyTarget(view), response'.id,
                                        {"warning"})
              ELSE response'.outcome = "server_error"

(* C29: in every reachable state of a visit and for every step first asked  *)
(* for among doctor, psychiatrist and lab, a client that follows each        *)
(* deny-redirect reaches a rendered form after at most three redirects, the  *)
(* form is that of the visit's first unsatisfied step, and the redirects     *)
(* never form a cycle.  Stated as written.                                   *)
C29_RedirectsReachFirstUnsatisfied ==
    \A id \in VisitPks : \A view \in GatedViews :
        VisitExists(id) =>
            LET end == Follow(view, id, {}) IN
            /\ end.outcome = "render"
            /\ end.redirects <= 3
            /\ StepOf(end.view) = FirstUnsatisfied(id)

\* the chain of a visit: where it ends for each step first asked for
ChainEnds ==
    \A id \in VisitPks : \A view \in GatedViews :
        VisitExists(id) =>
            LET end == Follow(view, id, {}) IN
            /\ end.outcome # "cycle"
            /\ IF ~GateDenied(view, id)
               THEN end = [outcome |-> "render", view |-> view, redirects |-> 0]
               ELSE IF view = "create_lab_request"
               THEN end = [outcome |-> "server_error", view |-> view,
                           redirects |-> 0]
               ELSE /\ end.outcome = "render"
                    /\ end.redirects \in 1..2
                    /\ StepOf(end.view) = FirstUnsatisfied(id)

(* C29, amended: the redirects never form a cycle.  A request to the doctor *)
(* or psychiatrist step whose gate denies it leads, after one or two        *)
(* redirects, to the rendered form of the visit's first unsatisfied step.   *)
(* A request to a step whose gate lets it pass renders the form of the step *)
(* asked for, with no redirect, also when that step and later ones are      *)
(* already satisfied.  A denied request to the lab step is not redirected:  *)
(* it ends in a server error, the gate's redirect naming a URL that does    *)
(* not reverse.                                                             *)
C29_RedirectsEndAtFormOrError ==
    /\ []ChainEnds
    /\ [][GateAnswers]_vars

\* a visit with no record asked for its psychiatrist step: the request was
\* redirected to the doctor step, and the chain ends at the vitals form
\* after two redirects
C29_Witness ==
    /\ response = Redirect("psychiatrist_assessment", "GET", response.id,
                           "core:doctor_assessment", response.id, {"warning"})
    /\ VisitExists(response.id)
    /\ ExactlySteps(response.id, 0)
    /\ Follow("psychiatrist_assessment", response.id, {})
          = [outcome |-> "render", view |-> "take_vitals", redirects |-> 2]

\* the views that store a record inside `try: ... except Exception`
TryViews ==
    {"enroll_participant", "take_vitals", "psychiatrist_assessment",
     "create_lab_request"}

(* C30: for enroll_participant, take_vitals, psychiatrist_assessment and    *)
(* create_lab_request the error outcome and persistence exclude each other: *)
(* a POST that ends in the error branch of the view (an error message, the  *)
(* form shown again, no redirect) has stored no record, and a POST that     *)
(* stored a record is answered with the success redirect.  Stated as        *)
(* written; enroll_participant and create_lab_request redirect to names     *)
(* that do not reverse, after the record is stored.                         *)
C30_ErrorExcludesPersistence ==
    [][\A view \in TryViews :
          (Handled(view) /\ response'.method = "POST")
             => /\ "error" \in response'.messages => UNCHANGED db
                /\ ~(UNCHANGED db)
                      => /\ response'.outcome = "redirect"
                         /\ response'.messages = {"success"}]_vars

====
